---- MODULE Spec2Model ----
(***************************************************************************)
(* Lifecycle of the quantized parameters of bitsandbytes/nn/modules.py:    *)
(* Int8Params / Linear8bitLt (8-bit) and Params4bit / Linear4bit (4-bit).  *)
(* One layer instance is modelled; `kind` says which of the two it is.     *)
(* A tensor is a record of its contents, device, dtype and element order.  *)
(***************************************************************************)
EXTENDS Integers, Sequences, FiniteSets, TLC

\* ------------------------------------------------------------------ bounds
\* most invocations of the quantization kernel followed in one behaviour
MaxQuant == 2

\* ------------------------------------------------------------ value domain
None == [none |-> TRUE]

\* an absent device or dtype argument (device=None, dtype=None)
NoArg == "None"

Devices == {"cpu", "cuda:0"}

IsCuda(d) == d # "cpu" /\ d # NoArg

\* element orders of a buffer relative to the logical matrix: 0 is row-major,
\* 1 is the turing/ampere layout, 2 is undo_layout applied to a row-major buffer
RowMajor == 0

Tensor(v, d, t, o) == [val |-> v, dev |-> d, dtype |-> t, order |-> o]

\* the full-precision weights a layer may be constructed with
InitWeights == {<<3, -1, 2, 0>>, <<1, 4, -2, 2>>}

Abs(x) == IF x < 0 THEN -x ELSE x

Max2(a, b) == IF a < b THEN b ELSE a

RECURSIVE AbsMax(_)
AbsMax(s) == IF s = <<>> THEN 0 ELSE Max2(Abs(Head(s)), AbsMax(Tail(s)))

\* a / b rounded to the nearest integer, b > 0
RoundDiv(a, b) ==
    IF a >= 0 THEN (2 * a + b) \div (2 * b) ELSE -((2 * (-a) + b) \div (2 * b))

\* Tensor.to(device=..., dtype=...): an absent argument keeps the current value
TensorTo(t, device, dtype) ==
    [t EXCEPT !.dev = IF device = NoArg THEN @ ELSE device,
              !.dtype = IF dtype = NoArg THEN @ ELSE dtype]

\* Tensor.copy_(src): the contents are overwritten in place, device and dtype stay
TensorCopy(dst, src) == [dst EXCEPT !.val = src.val, !.order = src.order]

\* ------------------------------------------------- quantization kernels
\* bnb.functional.double_quant(B): row-wise absmax scaling to int8 (one row)
double_quant(B) ==
    LET m == AbsMax(B.val)
    IN  [CB  |-> Tensor([i \in 1..Len(B.val) |->
                            IF m = 0 THEN 0 ELSE RoundDiv(127 * B.val[i], m)],
                        B.dev, "int8", B.order),
         SCB |-> Tensor(<<m>>, B.dev, "fp32", RowMajor)]

\* F.transform(CB, to_order=formatB): row-major -> turing/ampere layout
LayoutTransform(t) ==
    [t EXCEPT !.val = Tail(t.val) \o <<Head(t.val)>>, !.order = (t.order + 1) % 3]

\* undo_layout(permuted_tensor, tile_indices): the inverse permutation
undo_layout(t) ==
    [t EXCEPT !.val = <<t.val[Len(t.val)]>> \o SubSeq(t.val, 1, Len(t.val) - 1),
              !.order = (t.order + 2) % 3]

\* --------------------------------------------------------------- Int8Params
\* Int8Params.__new__: has_fp16_weights, CB and SCB are stored on the class, so
\* the value returned here is the flag every Int8Params instance reads afterwards
Int8Params_new(has_fp16_weights) == has_fp16_weights

\* cuda() without the test of has_fp16_weights: every weight is quantized
Cuda_IgnoresFlag(self, device, has_fp16_weights) ==
    LET B == Tensor(self.data.val, device, "fp16", self.data.order)
        q == double_quant(B)
    IN  [data |-> q.CB, CB |-> q.CB, SCB |-> q.SCB, kernel |-> 1, same |-> FALSE]

\* Int8Params.cuda(device). `self` is [data, CB, SCB]; the result adds
\*   kernel: how many times double_quant was invoked,
\*   same:   whether the result's data is the storage self.data had.
Int8Params_cuda(self, device, has_fp16_weights) ==
    IF has_fp16_weights
    THEN [data |-> TensorTo(self.data, device, NoArg), CB |-> self.CB, SCB |-> self.SCB,
          kernel |-> 0, same |-> (self.data.dev = device)]
    ELSE LET B == Tensor(self.data.val, device, "fp16", self.data.order)
             q == double_quant(B)
         IN  [data |-> q.CB, CB |-> q.CB, SCB |-> q.SCB, kernel |-> 1, same |-> FALSE]

\* Int8Params.to(device, dtype)
Int8Params_to(self, device, dtype, has_fp16_weights) ==
    IF device # NoArg /\ IsCuda(device) /\ self.data.dev = "cpu"
    THEN Int8Params_cuda(self, device, has_fp16_weights)
    ELSE LET moved == TensorTo(self.data, device, dtype)
         IN  [data |-> moved, CB |-> self.CB, SCB |-> self.SCB,
              kernel |-> 0, same |-> (moved = self.data)]

\* --------------------------------------------------------------- Params4bit
\* codes of the 4-bit data types are packed two to a byte
RECURSIVE Pack4(_)
Pack4(q) ==
    IF q = <<>> THEN <<>>
    ELSE IF Len(q) = 1 THEN <<16 * q[1]>>
    ELSE <<16 * q[1] + q[2]>> \o Pack4(SubSeq(q, 3, Len(q)))

\* bnb.functional.quantize_4bit(A, blocksize, compress_statistics, quant_type):
\* block-wise absmax scaling to 4-bit codes; with compress_statistics the absmax
\* is itself quantized and kept as [offset, state2 = [absmax, code]]
quantize_4bit(A, blocksize, compress_statistics, quant_type) ==
    LET m      == AbsMax(A.val)
        codes  == [i \in 1..Len(A.val) |->
                      IF m = 0 THEN 8 ELSE 8 + RoundDiv(7 * A.val[i], m)]
        w_4bit == Tensor(Pack4(codes), A.dev, "uint8", A.order)
        offset == m
        resid  == m - offset
        nested == [offset |-> Tensor(<<offset>>, A.dev, "fp32", RowMajor),
                   state2 |-> [absmax |-> Tensor(<<Abs(resid)>>, A.dev, "fp32", RowMajor),
                               code   |-> Tensor(<<-1, 0, 1>>, A.dev, "fp32", RowMajor)]]
    IN  [data |-> w_4bit,
         quant_state |->
            [absmax     |-> IF compress_statistics
                            THEN Tensor(<<resid>>, A.dev, "uint8", RowMajor)
                            ELSE Tensor(<<m>>, A.dev, "fp32", RowMajor),
             shape      |-> Len(A.val),
             dtype      |-> A.dtype,
             blocksize  |-> blocksize,
             nested     |-> IF compress_statistics THEN nested ELSE None,
             quant_type |-> quant_type]]

\* Params4bit.cuda(device). `self` is
\* [data, quant_state, blocksize, compress_statistics, quant_type]
Params4bit_cuda(self, device) ==
    LET w == Tensor(self.data.val, device, "fp16", self.data.order)
        q == quantize_4bit(w, self.blocksize, self.compress_statistics, self.quant_type)
    IN  [param  |-> [self EXCEPT !.data = q.data, !.quant_state = q.quant_state],
         kernel |-> 1]

\* the device moves of Params4bit.to on an existing quant_state s
Rehome4bit(s, compress_statistics, device) ==
    LET s0 == [s EXCEPT !.absmax = TensorTo(@, device, NoArg)]
    IN  IF compress_statistics
        THEN [s0 EXCEPT !.nested.offset = TensorTo(@, device, NoArg),
                        !.nested.state2.absmax = TensorTo(@, device, NoArg),
                        !.nested.state2.code = TensorTo(@, device, NoArg)]
        ELSE s0

\* Params4bit.to(device, dtype)
Params4bit_to(self, device, dtype) ==
    IF device # NoArg /\ IsCuda(device) /\ self.data.dev = "cpu"
    THEN Params4bit_cuda(self, device)
    ELSE LET s == self.quant_state
             t == IF s # None THEN Rehome4bit(s, self.compress_statistics, device) ELSE s
         IN  [param  |-> [self EXCEPT !.data = TensorTo(self.data, device, dtype),
                                      !.quant_state = t],
              kernel |-> 0]

\* -------------------------------------------------------------- Linear8bitLt
\* init_8bit_state with the parameter emptied before it is copied
InitStatement_ClearsFirst(n, weight, state) ==
    CASE n = 1 -> [weight |-> [weight EXCEPT !.CB = None], state |-> state]
      [] n = 2 -> [weight |-> [weight EXCEPT !.SCB = None], state |-> state]
      [] n = 3 -> [weight |-> weight, state |-> [state EXCEPT !.CB = weight.CB]]
      [] n = 4 -> [weight |-> weight, state |-> [state EXCEPT !.SCB = weight.SCB]]

\* the n-th assignment of init_8bit_state (lines 374-377), one at a time
InitStatement(n, weight, state) ==
    CASE n = 1 -> [weight |-> weight, state |-> [state EXCEPT !.CB = weight.CB]]
      [] n = 2 -> [weight |-> weight, state |-> [state EXCEPT !.SCB = weight.SCB]]
      [] n = 3 -> [weight |-> [weight EXCEPT !.CB = None], state |-> state]
      [] n = 4 -> [weight |-> [weight EXCEPT !.SCB = None], state |-> state]

\* init_8bit_state without the two assignments that empty the parameter
InitState_KeepsParameter(weight, state) ==
    [weight |-> weight,
     state  |-> [state EXCEPT !.CB = weight.CB, !.SCB = weight.SCB]]

\* init_8bit_state: `weight` is the Int8Params [data, CB, SCB], `state` the
\* MatmulLtState [has_fp16_weights, CB, CxB, SCB, is_training]
init_8bit_state(weight, state) ==
    LET s1 == InitStatement(1, weight, state)
        s2 == InitStatement(2, s1.weight, s1.state)
        s3 == InitStatement(3, s2.weight, s2.state)
    IN  InitStatement(4, s3.weight, s3.state)

\* bnb.matmul(x, weight, bias, state): with quantized weights the kernel needs
\* state.CB or state.CxB; on hardware with a fused layout (produces) it fills
\* state.CxB from state.CB the first time it runs
matmul(state, produces) ==
    IF ~state.has_fp16_weights /\ state.CB = None /\ state.CxB = None
    THEN [state |-> state, err |-> "MissingQuantizationStatistics"]
    ELSE IF produces /\ state.CB # None /\ state.CxB = None
    THEN [state |-> [state EXCEPT !.CxB = LayoutTransform(state.CB)], err |-> "none"]
    ELSE [state |-> state, err |-> "none"]

\* forward without the block under `if not self.state.has_fp16_weights`: the
\* transformed buffer the kernel leaves in state.CxB is never adopted
Forward_NoAdoption(weight, state, bias, sh, training, x_dtype, produces) ==
    LET st0    == [state EXCEPT !.is_training = training]
        handed == weight.CB # None
        h      == IF handed THEN init_8bit_state(weight, st0)
                  ELSE [weight |-> weight, state |-> st0]
        sh1    == IF handed
                  THEN (sh \ {"weight.CB"}) \cup
                       (IF "weight.CB" \in sh THEN {"state.CB"} ELSE {})
                  ELSE sh
        b1     == IF bias # None /\ bias.dtype # x_dtype
                  THEN TensorTo(bias, NoArg, x_dtype) ELSE bias
        m      == matmul(h.state, produces)
    IN  [weight  |-> h.weight,
         state   |-> m.state,
         bias    |-> b1,
         sh      |-> sh1,
         err     |-> m.err,
         handed  |-> handed,
         adopted |-> FALSE]

\* forward from the bias cast on (lines 384-396): the bias is cast in place,
\* the kernel is called, and the transformed buffer is adopted
ForwardFromBiasCast(weight, state, bias, sh, x_dtype, produces) ==
    LET b1     == IF bias # None /\ bias.dtype # x_dtype
                  THEN TensorTo(bias, NoArg, x_dtype) ELSE bias
        m      == matmul(state, produces)
        adopt  == /\ m.err = "none"
                  /\ ~m.state.has_fp16_weights
                  /\ m.state.CB # None
                  /\ m.state.CxB # None
    IN  [weight  |-> IF adopt THEN [weight EXCEPT !.data = m.state.CxB] ELSE weight,
         state   |-> IF adopt THEN [m.state EXCEPT !.CB = None] ELSE m.state,
         bias    |-> b1,
         sh      |-> IF adopt THEN {"state.CxB"} ELSE sh,
         err     |-> m.err,
         adopted |-> adopt]

\* the fields sharing storage with weight.data once init_8bit_state has moved
\* weight.CB to state.CB
SharesHandedOver(sh) ==
    (sh \ {"weight.CB"}) \cup (IF "weight.CB" \in sh THEN {"state.CB"} ELSE {})

\* Linear8bitLt.forward(x): x_dtype is x.dtype, `training` is self.training,
\* `sh` names the fields that are the same tensor object as weight.data
Linear8bitLt_forward(weight, state, bias, sh, training, x_dtype, produces) ==
    LET st0    == [state EXCEPT !.is_training = training]
        handed == weight.CB # None
        h      == IF handed THEN init_8bit_state(weight, st0)
                  ELSE [weight |-> weight, state |-> st0]
        sh1    == IF handed THEN SharesHandedOver(sh) ELSE sh
        r      == ForwardFromBiasCast(h.weight, h.state, bias, sh1, x_dtype, produces)
    IN  [weight  |-> r.weight,
         state   |-> r.state,
         bias    |-> r.bias,
         sh      |-> r.sh,
         err     |-> r.err,
         handed  |-> handed,
         adopted |-> r.adopted]

\* checkpoint keys are strings, kept as sequences of characters
prefix == <<"a", ".">>

Key_weight == prefix \o <<"w", "e", "i", "g", "h", "t">>

Key_bias == prefix \o <<"b", "i", "a", "s">>

Name_SCB == <<"S", "C", "B">>

Key_SCB == prefix \o Name_SCB

\* a function with one more entry (dict[key] = value)
Put(f, k, v) == [x \in (DOMAIN f) \cup {k} |-> IF x = k THEN v ELSE f[x]]

EmptyDict == [x \in {} |-> None]

\* nn.Module._save_to_state_dict: every parameter under prefix + name
GenericSave(destination, data, bias) ==
    LET d1 == Put(destination, Key_weight, data)
    IN  IF bias # None THEN Put(d1, Key_bias, bias) ELSE d1

\* _save_to_state_dict without the `finally` block: weight.data keeps the
\* row-major buffer undo_layout returned
Save_NoRestore(weight, state, bias, failpoint) ==
    LET reorder_layout == ~state.has_fp16_weights /\ state.CB = None /\ state.CxB # None
        to_save  == IF reorder_layout THEN undo_layout(state.CxB) ELSE weight.data
        d_super  == GenericSave(EmptyDict, to_save, bias)
        d_scb    == IF weight.SCB # None THEN Put(d_super, Key_SCB, weight.SCB)
                    ELSE IF ~state.has_fp16_weights /\ state.SCB # None
                    THEN Put(d_super, Key_SCB, state.SCB)
                    ELSE d_super
    IN  [data        |-> IF failpoint = "undo_layout" THEN weight.data ELSE to_save,
         cloned      |-> reorder_layout,
         destination |-> CASE failpoint = "none" -> d_scb
                           [] failpoint = "scb" -> d_super
                           [] OTHER -> EmptyDict,
         err         |-> failpoint]

\* _save_to_state_dict without the reordering: the live buffer is saved as it is
Save_NoUndoLayout(weight, state, bias, failpoint) ==
    LET d_super  == GenericSave(EmptyDict, weight.data, bias)
        d_scb    == IF weight.SCB # None THEN Put(d_super, Key_SCB, weight.SCB)
                    ELSE IF ~state.has_fp16_weights /\ state.SCB # None
                    THEN Put(d_super, Key_SCB, state.SCB)
                    ELSE d_super
    IN  [data        |-> weight.data,
         cloned      |-> FALSE,
         destination |-> CASE failpoint = "none" -> d_scb
                           [] failpoint = "scb" -> d_super
                           [] OTHER -> EmptyDict,
         err         |-> failpoint]

\* Linear8bitLt._save_to_state_dict. failpoint names the statement that raises,
\* or is "none". The result gives weight.data after the call, the destination
\* dict, the error and whether weight.data was replaced by the clone.
Linear8bitLt_save_to_state_dict(weight, state, bias, failpoint) ==
    LET reorder_layout == ~state.has_fp16_weights /\ state.CB = None /\ state.CxB # None
        weight_clone   == weight.data
        to_save  == IF reorder_layout THEN undo_layout(state.CxB) ELSE weight.data
        d_super  == GenericSave(EmptyDict, to_save, bias)
        d_scb    == IF weight.SCB # None THEN Put(d_super, Key_SCB, weight.SCB)
                    ELSE IF ~state.has_fp16_weights /\ state.SCB # None
                    THEN Put(d_super, Key_SCB, state.SCB)
                    ELSE d_super
    IN  [data        |-> IF reorder_layout THEN weight_clone ELSE weight.data,
         cloned      |-> reorder_layout,
         destination |-> CASE failpoint = "none" -> d_scb
                           [] failpoint = "scb" -> d_super
                           [] OTHER -> EmptyDict,
         err         |-> failpoint]

\* nn.Module._load_from_state_dict (the super() call): copies the layer's own
\* parameters in place and lists every other key under the prefix as unexpected
GenericLoad(weight, bias, state_dict, unexpected_keys) ==
    [data |-> IF Key_weight \in DOMAIN state_dict
              THEN TensorCopy(weight.data, state_dict[Key_weight]) ELSE weight.data,
     bias |-> IF bias # None /\ Key_bias \in DOMAIN state_dict
              THEN TensorCopy(bias, state_dict[Key_bias]) ELSE bias,
     unexpected_keys |->
         unexpected_keys \o
         (IF Key_SCB \in DOMAIN state_dict THEN <<Key_SCB>> ELSE <<>>)]

\* list.remove(x) at a known position
RemoveAt(s, i) == SubSeq(s, 1, i - 1) \o SubSeq(s, i + 1, Len(s))

\* the loop without the `if self.weight.SCB is None: raise`: the statistics of
\* the checkpoint are taken as they are
RECURSIVE LoadLoop_NoCheck(_, _, _, _)
LoadLoop_NoCheck(i, unexpected_keys, SCB, state_dict) ==
    IF i > Len(unexpected_keys)
    THEN [unexpected_keys |-> unexpected_keys, SCB |-> SCB, err |-> "none"]
    ELSE LET key        == unexpected_keys[i]
             input_name == SubSeq(key, Len(prefix) + 1, Len(key))
         IN  IF input_name = Name_SCB
             THEN IF key \notin DOMAIN state_dict
                  THEN [unexpected_keys |-> unexpected_keys, SCB |-> SCB,
                        err |-> "KeyError"]
                  ELSE LoadLoop_NoCheck(i + 1, RemoveAt(unexpected_keys, i),
                                        state_dict[key], state_dict)
             ELSE LoadLoop_NoCheck(i + 1, unexpected_keys, SCB, state_dict)

\* the loop `for key in unexpected_keys` of _load_from_state_dict, from list
\* position i: a list iterator advances by index, also after a remove
RECURSIVE LoadLoop(_, _, _, _)
LoadLoop(i, unexpected_keys, SCB, state_dict) ==
    IF i > Len(unexpected_keys)
    THEN [unexpected_keys |-> unexpected_keys, SCB |-> SCB, err |-> "none"]
    ELSE LET key        == unexpected_keys[i]
             input_name == SubSeq(key, Len(prefix) + 1, Len(key))
         IN  IF input_name = Name_SCB
             THEN IF SCB = None
                  THEN [unexpected_keys |-> unexpected_keys, SCB |-> SCB,
                        err |-> "RuntimeError"]
                  ELSE IF key \notin DOMAIN state_dict
                  THEN [unexpected_keys |-> unexpected_keys, SCB |-> SCB,
                        err |-> "KeyError"]
                  ELSE LoadLoop(i + 1, RemoveAt(unexpected_keys, i),
                                TensorCopy(SCB, state_dict[key]), state_dict)
             ELSE LoadLoop(i + 1, unexpected_keys, SCB, state_dict)

\* Linear8bitLt._load_from_state_dict. The generic load writes into the storage
\* of weight.data, so every field named in sh sees the new contents too.
Linear8bitLt_load_from_state_dict(weight, state, bias, sh, state_dict, unexpected_keys) ==
    LET g == GenericLoad(weight, bias, state_dict, unexpected_keys)
        w1 == [weight EXCEPT !.data = g.data,
                             !.CB = IF "weight.CB" \in sh THEN g.data ELSE @]
        l == LoadLoop(1, g.unexpected_keys, w1.SCB, state_dict)
    IN  [weight |-> [w1 EXCEPT !.SCB = l.SCB],
         state  |-> [state EXCEPT !.CB = IF "state.CB" \in sh THEN g.data ELSE @,
                                  !.CxB = IF "state.CxB" \in sh THEN g.data ELSE @],
         bias   |-> g.bias,
         unexpected_keys |-> l.unexpected_keys,
         err    |-> l.err]

\* ---------------------------------------------------------------- Linear4bit
\* a forward that refuses to run without quant_state instead of printing
Forward4bit_FailsLoudly(weight, bias, compute_dtype, x_dtype) ==
    [bias    |-> IF bias # None /\ bias.dtype # x_dtype
                 THEN TensorTo(bias, NoArg, x_dtype) ELSE bias,
     warned  |-> FALSE,
     dispatched  |-> weight.quant_state # None,
     quant_state |-> weight.quant_state,
     out_dtype   |-> x_dtype,
     err     |-> IF weight.quant_state = None
                 THEN "MissingQuantizationStatistics" ELSE "none"]

\* Linear4bit.forward(x): the bias is cast in place, a missing quant_state is
\* reported with print(), and matmul_4bit is called with weight.quant_state
Linear4bit_forward(weight, bias, compute_dtype, x_dtype) ==
    [bias    |-> IF bias # None /\ bias.dtype # x_dtype
                 THEN TensorTo(bias, NoArg, x_dtype) ELSE bias,
     warned  |-> weight.quant_state = None,
     dispatched  |-> TRUE,
     quant_state |-> weight.quant_state,
     out_dtype   |-> x_dtype,
     err     |-> "none"]

\* -------------------------------------------------------------------- state
VARIABLES
    kind,        \* "int8": a Linear8bitLt layer, "4bit": a Linear4bit layer
    weight,      \* the layer's weight: an Int8Params or a Params4bit
    cls_has_fp16_weights,  \* the class attribute Int8Params.has_fp16_weights
    state,       \* Linear8bitLt.state (MatmulLtState), None for Linear4bit
    bias,        \* the layer's bias tensor or None
    shares,      \* the fields holding the same tensor object as weight.data
    compute_dtype,  \* Linear4bit.compute_dtype
    last,        \* the last call: its arguments, what it returned or raised
    nQuant,      \* invocations of double_quant / quantize_4bit so far
    threads      \* the threads inside forward(): where each is, and whether
                 \* the callers serialize their forward calls

vars == <<kind, weight, cls_has_fp16_weights, state, bias, shares, compute_dtype,
          last, nQuant, threads>>

\* the record kept in `last`
Call(op) ==
    [op |-> op, err |-> "none", kernel |-> 0, target |-> NoArg, dtype |-> NoArg,
     warned |-> FALSE,
     handed |-> FALSE, adopted |-> FALSE, dispatched |-> FALSE, quant_state |-> None,
     state_dict |-> EmptyDict, leftover |-> <<>>, unexpected_keys |-> <<>>,
     destination |-> EmptyDict]

InitBias(hasBias) == IF hasBias THEN Tensor(<<1>>, "cpu", "fp32", RowMajor) ELSE None

\* Linear8bitLt.__init__ (has_fp16_weights is the constructor argument)
Linear8bitLt_init(w0, has_fp16_weights, hasBias) ==
    /\ kind = "int8"
    /\ weight = [data |-> Tensor(w0, "cpu", "fp32", RowMajor), CB |-> None, SCB |-> None]
    /\ cls_has_fp16_weights = Int8Params_new(has_fp16_weights)
    /\ state = [has_fp16_weights |-> has_fp16_weights, CB |-> None, CxB |-> None,
                SCB |-> None, is_training |-> TRUE]
    /\ bias = InitBias(hasBias)
    /\ compute_dtype = NoArg

\* Linear4bit.__init__ / Params4bit.__new__
Linear4bit_init(w0, hasBias, cdtype, compress_statistics, quant_type) ==
    /\ kind = "4bit"
    /\ weight = [data |-> Tensor(w0, "cpu", "fp32", RowMajor), quant_state |-> None,
                 blocksize |-> 64, compress_statistics |-> compress_statistics,
                 quant_type |-> quant_type]
    /\ cls_has_fp16_weights = FALSE
    /\ state = None
    /\ bias = InitBias(hasBias)
    /\ compute_dtype = cdtype

\* the threads that call forward() on the layer
Threads == {"t1", "t2"}

\* no thread is inside forward()
Idle(serialized) == [pc |-> [t \in Threads |-> "idle"], serialized |-> serialized]

\* the layer after its constructor
InitLayer ==
    /\ \E w0 \in InitWeights, hasBias \in BOOLEAN :
          \/ \E h \in BOOLEAN : Linear8bitLt_init(w0, h, hasBias)
          \/ \E cd \in {NoArg, "fp16"}, cs \in BOOLEAN, qt \in {"fp4", "nf4"} :
                Linear4bit_init(w0, hasBias, cd, cs, qt)
    /\ shares = {}
    /\ last = Call("init")
    /\ nQuant = 0

Init == InitLayer /\ threads = Idle(TRUE)

\* ------------------------------------------------------------------ actions
CudaDevices == {d \in Devices : IsCuda(d)}

\* the fields sharing storage with weight.data after cuda() / to()
SharesAfter(r) ==
    IF r.kernel > 0 THEN {"weight.CB"} ELSE IF r.same THEN shares ELSE {}

\* layer.weight.cuda(device) on the 8-bit layer
Cuda8(device) ==
    /\ kind = "int8"
    /\ LET r == Int8Params_cuda(weight, device, cls_has_fp16_weights)
       IN  /\ nQuant + r.kernel <= MaxQuant
           /\ weight' = [data |-> r.data, CB |-> r.CB, SCB |-> r.SCB]
           /\ shares' = SharesAfter(r)
           /\ nQuant' = nQuant + r.kernel
           /\ last' = [Call("cuda") EXCEPT !.kernel = r.kernel, !.target = device]
    /\ UNCHANGED <<threads, kind, cls_has_fp16_weights, state, bias, compute_dtype>>

\* layer.weight.to(device, dtype) on the 8-bit layer; the new Int8Params of the
\* else branch is built with has_fp16_weights=self.has_fp16_weights
To8(device, dtype) ==
    /\ kind = "int8"
    /\ LET r == Int8Params_to(weight, device, dtype, cls_has_fp16_weights)
       IN  /\ nQuant + r.kernel <= MaxQuant
           /\ weight' = [data |-> r.data, CB |-> r.CB, SCB |-> r.SCB]
           /\ shares' = SharesAfter(r)
           /\ nQuant' = nQuant + r.kernel
           /\ last' = [Call("to") EXCEPT !.kernel = r.kernel, !.target = device,
                                         !.dtype = dtype]
    /\ cls_has_fp16_weights' = Int8Params_new(cls_has_fp16_weights)
    /\ UNCHANGED <<threads, kind, state, bias, compute_dtype>>

\* another Linear8bitLt (and its Int8Params) is constructed
NewInt8Layer(has_fp16_weights) ==
    /\ kind = "int8"
    /\ cls_has_fp16_weights # has_fp16_weights
    /\ cls_has_fp16_weights' = Int8Params_new(has_fp16_weights)
    /\ last' = Call("new")
    /\ UNCHANGED <<threads, kind, weight, state, bias, shares, compute_dtype, nQuant>>

\* nn.Module.training: a constructed module is in training mode
training == TRUE

\* layer.forward(x) on the 8-bit layer
Forward8(x_dtype, produces) ==
    /\ kind = "int8"
    /\ LET r == Linear8bitLt_forward(weight, state, bias, shares, training, x_dtype,
                                     produces)
       IN  /\ weight' = r.weight
           /\ state' = r.state
           /\ bias' = r.bias
           /\ shares' = r.sh
           /\ last' = [Call("forward") EXCEPT !.err = r.err, !.handed = r.handed,
                                              !.adopted = r.adopted]
    /\ UNCHANGED <<threads, kind, cls_has_fp16_weights, compute_dtype, nQuant>>

FailPoints == {"none", "undo_layout", "super", "scb"}

\* layer._save_to_state_dict(destination, prefix, keep_vars)
Save8(failpoint) ==
    /\ kind = "int8"
    /\ LET r == Linear8bitLt_save_to_state_dict(weight, state, bias, failpoint)
       IN  /\ failpoint = "undo_layout" => r.cloned
           /\ weight' = [weight EXCEPT !.data = r.data]
           /\ shares' = IF r.cloned THEN {} ELSE shares
           /\ last' = [Call("save") EXCEPT !.err = r.err,
                                           !.destination = r.destination]
    /\ UNCHANGED <<threads, kind, cls_has_fp16_weights, state, bias, compute_dtype, nQuant>>

\* the checkpoints offered to load: a full-precision one, the one
\* _save_to_state_dict writes for a quantized layer, and the same inside the
\* state dict of a whole model (which also holds module b's statistics)
Key_other_SCB == <<"b", ".">> \o Name_SCB

CheckpointWeight == <<2, -4, 1, 1>>

CheckpointBias == IF bias # None THEN Tensor(<<2>>, "cpu", "fp32", RowMajor) ELSE None

FullPrecisionCheckpoint ==
    GenericSave(EmptyDict, Tensor(CheckpointWeight, "cpu", "fp32", RowMajor),
                CheckpointBias)

QuantizedCheckpoint ==
    LET src == [data |-> Tensor(CheckpointWeight, "cpu", "fp32", RowMajor),
                CB |-> None, SCB |-> None]
        q   == Int8Params_cuda(src, "cuda:0", FALSE)
        st  == [has_fp16_weights |-> FALSE, CB |-> None, CxB |-> None, SCB |-> None,
                is_training |-> TRUE]
    IN  Linear8bitLt_save_to_state_dict(q, st, CheckpointBias, "none").destination

WholeModelCheckpoint ==
    Put(QuantizedCheckpoint, Key_other_SCB, Tensor(<<9>>, "cpu", "fp32", RowMajor))

StateDicts == {FullPrecisionCheckpoint, QuantizedCheckpoint, WholeModelCheckpoint}

\* unexpected keys other modules left in the shared list before this layer loads
Leftovers == {<<>>, <<Key_other_SCB>>}

\* layer._load_from_state_dict(state_dict, prefix, ..., unexpected_keys, ...)
Load8(state_dict, unexpected_keys) ==
    /\ kind = "int8"
    /\ LET r == Linear8bitLt_load_from_state_dict(weight, state, bias, shares,
                                                  state_dict, unexpected_keys)
       IN  /\ weight' = r.weight
           /\ state' = r.state
           /\ bias' = r.bias
           /\ last' = [Call("load") EXCEPT !.err = r.err, !.state_dict = state_dict,
                                           !.leftover = unexpected_keys,
                                           !.unexpected_keys = r.unexpected_keys]
    /\ UNCHANGED <<threads, kind, cls_has_fp16_weights, shares, compute_dtype, nQuant>>

\* layer.weight.cuda(device) on the 4-bit layer
Cuda4(device) ==
    /\ kind = "4bit"
    /\ LET r == Params4bit_cuda(weight, device)
       IN  /\ nQuant + r.kernel <= MaxQuant
           /\ weight' = r.param
           /\ nQuant' = nQuant + r.kernel
           /\ last' = [Call("cuda") EXCEPT !.kernel = r.kernel, !.target = device]
    /\ UNCHANGED <<threads, kind, cls_has_fp16_weights, state, bias, shares, compute_dtype>>

\* layer.weight.to(device, dtype) on the 4-bit layer
To4(device, dtype) ==
    /\ kind = "4bit"
    /\ LET r == Params4bit_to(weight, device, dtype)
       IN  /\ nQuant + r.kernel <= MaxQuant
           /\ weight' = r.param
           /\ nQuant' = nQuant + r.kernel
           /\ last' = [Call("to") EXCEPT !.kernel = r.kernel, !.target = device,
                                         !.dtype = dtype]
    /\ UNCHANGED <<threads, kind, cls_has_fp16_weights, state, bias, shares, compute_dtype>>

\* layer.forward(x) on the 4-bit layer
Forward4(x_dtype) ==
    /\ kind = "4bit"
    /\ LET r == Linear4bit_forward(weight, bias, compute_dtype, x_dtype)
       IN  /\ bias' = r.bias
           /\ last' = [Call("forward") EXCEPT !.err = r.err, !.warned = r.warned,
                                              !.dispatched = r.dispatched,
                                              !.quant_state = r.quant_state]
    /\ UNCHANGED <<threads, kind, weight, cls_has_fp16_weights, state, shares, compute_dtype,
                   nQuant>>

\* the arguments tried for to(): a device, or a floating dtype
ToArgs == {<<d, NoArg>> : d \in Devices} \cup {<<NoArg, "fp16">>}

\* the dtypes of the inputs x tried for forward()
InputDtypes == {"fp16"}

Next ==
    \/ \E d \in CudaDevices : Cuda8(d)
    \/ \E a \in ToArgs : To8(a[1], a[2])
    \/ \E h \in BOOLEAN : NewInt8Layer(h)
    \/ \E x \in InputDtypes, p \in BOOLEAN : Forward8(x, p)
    \/ \E f \in FailPoints : Save8(f)
    \/ \E sd \in StateDicts, u \in Leftovers : Load8(sd, u)
    \/ \E d \in CudaDevices : Cuda4(d)
    \/ \E a \in ToArgs : To4(a[1], a[2])
    \/ \E x \in InputDtypes : Forward4(x)

Spec == Init /\ [][Next]_vars

\* ------------------------------------------------------------------- claims
\* a call that places the weight on an accelerator: cuda(device) or to(device)
PlaceOnAccelerator(l) == l.op \in {"cuda", "to"} /\ IsCuda(l.target)

\* C1: a parameter that is meant to be quantized and was quantized by its first
\* placement on the accelerator is left as it is by a second placement on the
\* accelerator right after it: same weight buffer, same statistics, and no
\* further invocation of the quantization kernel.
C1_IdempotentPlacement ==
    [][(/\ PlaceOnAccelerator(last)
        /\ last.kernel = 1
        /\ nQuant = 1
        /\ PlaceOnAccelerator(last'))
       => (weight' = weight /\ last'.kernel = 0)]_vars

\* C2: the kernel encodes a weight at most once: once it has been invoked for
\* the weight, no later to() call invokes it again, whatever the target (a move
\* to the host and back to the accelerator included).
C2_QuantizeAtMostOnce ==
    [][(last'.op = "to" /\ nQuant >= 1) => last'.kernel = 0]_vars

\* where the 8-bit statistics are populated
OnParameter == weight.CB # None \/ weight.SCB # None

OnLayerState == state.CB # None \/ state.SCB # None

\* C3: in an 8-bit layer constructed with has_fp16_weights=False whose weight
\* has been quantized, the statistics are populated on exactly one of the
\* parameter and the layer-state; right after a forward that ran
\* init_8bit_state they are on the layer-state only.
C3_OwnershipExclusivity ==
    (kind = "int8" /\ ~state.has_fp16_weights /\ nQuant >= 1)
        => /\ OnParameter # OnLayerState
           /\ (last.op = "forward" /\ last.handed)
                 => (weight.CB = None /\ weight.SCB = None /\ state.SCB # None)

\* a layer whose weight the quantization kernel never encoded
NeverQuantized == kind = "int8" /\ nQuant = 0

\* C4: load of a state dict holding the layer's SCB key into an 8-bit layer
\* whose weight was never quantized raises RuntimeError.
C4_RejectBadLoad ==
    (last.op = "load" /\ NeverQuantized /\ Key_SCB \in DOMAIN last.state_dict)
        => last.err = "RuntimeError"

\* C4 witness: a freshly constructed layer refused a quantized checkpoint
C4_Witness ==
    /\ last.op = "load"
    /\ NeverQuantized
    /\ weight.data.dev = "cpu"
    /\ last.state_dict = QuantizedCheckpoint
    /\ last.leftover = <<>>
    /\ last.err = "RuntimeError"

\* C5: load of the checkpoint a quantized layer saves into an 8-bit layer
\* (has_fp16_weights=False) whose weight was quantized by its one placement
\* succeeds, the SCB key is consumed, and the live statistics carry the
\* checkpoint's SCB values.
LiveSCB == IF weight.SCB # None THEN weight.SCB ELSE state.SCB

C5_QuantizedLayerAcceptsQuantizedCheckpoint ==
    (/\ last.op = "load"
     /\ kind = "int8"
     /\ ~state.has_fp16_weights
     /\ nQuant = 1
     /\ last.state_dict = QuantizedCheckpoint
     /\ last.leftover = <<>>)
        => /\ last.err = "none"
           /\ last.unexpected_keys = <<>>
           /\ LiveSCB # None
           /\ LiveSCB.val = QuantizedCheckpoint[Key_SCB].val

\* C6: _save_to_state_dict, whether it returns or raises, leaves the weight
\* (its buffer included), the layer-state and the bias with the contents they
\* had before the call.
C6_SaveRestoresLiveParameter ==
    [][last'.op = "save" => (weight' = weight /\ state' = state /\ bias' = bias)]_vars

\* the layer is past the layout adoption: weight.data is the transformed buffer
LayoutTransformed ==
    kind = "int8" /\ state.CB = None /\ state.CxB # None /\ weight.data = state.CxB

\* C6 witness: a save of a layout-transformed layer raised after weight.data had
\* been replaced by the row-major buffer
C6_Witness ==
    /\ last.op = "save"
    /\ last.err \in {"super", "scb"}
    /\ ~state.has_fp16_weights
    /\ LayoutTransformed
    /\ weight.data.order # RowMajor

\* one placement on the accelerator, then forward and save calls only
NextPlaceForward ==
    \/ \E d \in CudaDevices : nQuant = 0 /\ Cuda8(d)
    \/ \E d \in CudaDevices : nQuant = 0 /\ To8(d, NoArg)
    \/ \E x \in InputDtypes, p \in BOOLEAN : Forward8(x, p)
    \/ \E f \in FailPoints : Save8(f)

SpecPlaceForward == Init /\ [][NextPlaceForward]_vars

\* C7 (under SpecPlaceForward): for an 8-bit layer with has_fp16_weights=False
\* that is quantized, the buffer saved under the weight key is row-major:
\* weight.data itself while no transformed buffer was adopted,
\* undo_layout(state.CxB) afterwards.
C7_SavedBufferIsRowMajor ==
    (/\ last.op = "save"
     /\ last.err = "none"
     /\ kind = "int8"
     /\ ~state.has_fp16_weights
     /\ nQuant >= 1)
        => /\ last.destination[Key_weight].order = RowMajor
           /\ last.destination[Key_weight] =
                 IF LayoutTransformed THEN undo_layout(state.CxB) ELSE weight.data

\* C7 witness: a layout-transformed layer was saved
C7_Witness ==
    /\ last.op = "save"
    /\ last.err = "none"
    /\ ~state.has_fp16_weights
    /\ LayoutTransformed
    /\ weight.data.order # RowMajor
    /\ last.destination[Key_weight].order = RowMajor

\* C8: a save that returns has written the SCB entry with the statistics of
\* the parameter when the parameter holds them, else with those of the
\* layer-state when the layer-state holds them, and no SCB entry when neither
\* holds any.
C8_StatisticsSavedWhereverTheyLive ==
    (last.op = "save" /\ last.err = "none")
        => IF weight.SCB # None
           THEN Key_SCB \in DOMAIN last.destination
                /\ last.destination[Key_SCB] = weight.SCB
           ELSE IF state.SCB # None
           THEN Key_SCB \in DOMAIN last.destination
                /\ last.destination[Key_SCB] = state.SCB
           ELSE Key_SCB \notin DOMAIN last.destination

\* C9: forward on a 4-bit layer raises nothing in the layer and calls the
\* 4-bit kernel with weight.quant_state; it warns exactly when quant_state is
\* absent.
C9_Forward4bitWarnsAndContinues ==
    (kind = "4bit" /\ last.op = "forward")
        => /\ last.err = "none"
           /\ last.dispatched
           /\ last.quant_state = weight.quant_state
           /\ last.warned <=> (weight.quant_state = None)

\* C9 witness: a forward on a never-placed 4-bit layer warned and dispatched
C9_Witness ==
    /\ kind = "4bit"
    /\ last.op = "forward"
    /\ weight.quant_state = None
    /\ last.warned
    /\ last.dispatched
    /\ last.err = "none"

\* the device-bound fields of the statistics of the weight
StatDevices ==
    IF kind = "int8"
    THEN {t.dev : t \in {weight.CB, weight.SCB} \ {None}}
    ELSE IF weight.quant_state = None THEN {}
    ELSE {weight.quant_state.absmax.dev} \cup
         (IF weight.quant_state.nested = None THEN {}
          ELSE {weight.quant_state.nested.offset.dev,
                weight.quant_state.nested.state2.absmax.dev,
                weight.quant_state.nested.state2.code.dev})

HoldsStatistics ==
    IF kind = "int8" THEN weight.SCB # None ELSE weight.quant_state # None

\* C10: to(target) on a parameter that holds statistics and whose buffer is not
\* on the host does not invoke the kernel and leaves every device-bound field
\* of the statistics on the target device.
C10_RehomingMovesStatistics ==
    [][(/\ last'.op = "to"
        /\ last'.target # NoArg
        /\ HoldsStatistics
        /\ weight.data.dev # "cpu")
       => (last'.kernel = 0 /\ StatDevices' = {last'.target})]_vars

\* the call recorded in l, made in the current state, reaches the branch of
\* cuda() / to() that runs the quantization kernel
ReachesKernel(l) ==
    /\ l.op \in {"cuda", "to"}
    /\ l.op = "to" => (IsCuda(l.target) /\ weight.data.dev = "cpu")
    /\ kind = "int8" => ~cls_has_fp16_weights

\* C11: a placement call that would quantize a weight the kernel has already
\* encoded fails with UnsupportedTransition and leaves the weight (buffer and
\* statistics) as it was before the call.
C11_UnsupportedPlacementFailsCleanly ==
    [][(nQuant >= 1 /\ ReachesKernel(last'))
       => (last'.err = "UnsupportedTransition" /\ weight' = weight)]_vars

\* the configuration a parameter carries
Config ==
    IF kind = "int8" THEN <<cls_has_fp16_weights>>
    ELSE <<weight.blocksize, weight.compress_statistics, weight.quant_type>>

\* C12: to(dtype=...) without a device casts the buffer only while the weight
\* is full precision; the buffer of a weight the kernel has encoded is left as
\* it is. The parameter returned carries the configuration of the original.
C12_PrecisionCastOnlyFromFullPrecision ==
    [][(last'.op = "to" /\ last'.target = NoArg /\ last'.dtype # NoArg)
       => /\ nQuant >= 1 => weight'.data = weight.data
          /\ nQuant = 0 => weight'.data.dtype = last'.dtype
          /\ Config' = Config]_vars

\* placements while the kernel has not run yet, then forward calls only
NextQuantizeForward ==
    \/ \E d \in CudaDevices : nQuant = 0 /\ Cuda8(d)
    \/ \E d \in Devices : nQuant = 0 /\ To8(d, NoArg)
    \/ \E x \in InputDtypes, p \in BOOLEAN : Forward8(x, p)

SpecQuantizeForward == Init /\ [][NextQuantizeForward]_vars

\* an 8-bit layer constructed with has_fp16_weights=False, quantized once
QuantizedOnce ==
    kind = "int8" /\ nQuant = 1 /\ ~state.has_fp16_weights /\ ~cls_has_fp16_weights

\* C13 (under SpecQuantizeForward): on a layer quantized once, a forward runs
\* init_8bit_state exactly when it is the first forward after the placement
\* that quantized; that forward moves CB and SCB from the parameter to the
\* layer-state and empties the parameter; every later forward keeps
\* state.SCB, and keeps state.CB unless it retires it at the layout adoption.
C13_LazyHandOffExactlyOnce ==
    [][(last'.op = "forward" /\ QuantizedOnce)
       => /\ last'.handed <=> (last.op \in {"cuda", "to"})
          /\ last'.handed =>
                /\ state'.SCB = weight.SCB /\ state'.SCB # None
                /\ weight'.CB = None /\ weight'.SCB = None
                /\ state'.CB = weight.CB \/ (last'.adopted /\ state'.CB = None)
          /\ ~last'.handed =>
                /\ state'.SCB = state.SCB /\ state.SCB # None
                /\ state'.CB = state.CB \/ (last'.adopted /\ state'.CB = None)]_vars

\* C13 witness: a later forward on a quantized layer found the hand-off done
C13_Witness ==
    /\ QuantizedOnce
    /\ last.op = "forward"
    /\ ~last.handed
    /\ weight.CB = None
    /\ state.SCB # None

\* encoding_state of the 8-bit weight, read off the buffer the weight holds
Encoding ==
    IF weight.data.dtype # "int8" THEN "FullPrecision"
    ELSE IF LayoutTransformed THEN "QuantizedLayoutTransformed"
    ELSE "QuantizedUntransformed"

\* C14 (under SpecQuantizeForward): a forward adopts only on a layer with
\* has_fp16_weights=False whose weight is QuantizedUntransformed, and then it
\* deletes state.CB, makes weight.data the transformed buffer state.CxB and
\* leaves the weight QuantizedLayoutTransformed; on a layer quantized once the
\* first forward after which state.CxB exists adopts; a forward on a
\* layout-transformed weight leaves it so and adopts nothing; a layer with
\* has_fp16_weights=True loses no buffer and is never layout-transformed; no
\* step reaches QuantizedLayoutTransformed from FullPrecision.
C14_LayoutAdoptionAtMostOnce ==
    [][/\ (kind = "int8" /\ last'.op = "forward") =>
            /\ last'.adopted =>
                  /\ ~state.has_fp16_weights
                  /\ Encoding = "QuantizedUntransformed"
                  /\ Encoding' = "QuantizedLayoutTransformed"
                  /\ state'.CB = None /\ state'.CxB # None
                  /\ weight'.data = state'.CxB
            /\ (QuantizedOnce /\ Encoding = "QuantizedUntransformed"
                  /\ state'.CxB # None) => last'.adopted
            /\ Encoding = "QuantizedLayoutTransformed" =>
                  (Encoding' = "QuantizedLayoutTransformed" /\ ~last'.adopted)
            /\ state.has_fp16_weights =>
                  (state'.CB = state.CB /\ Encoding' # "QuantizedLayoutTransformed")
       /\ (kind = "int8" /\ Encoding' = "QuantizedLayoutTransformed") =>
            Encoding # "FullPrecision"]_vars

\* C14 witness: a forward after the adoption left the layer layout-transformed
C14_Witness ==
    /\ QuantizedOnce
    /\ last.op = "forward"
    /\ ~last.adopted
    /\ Encoding = "QuantizedLayoutTransformed"
    /\ weight.data.order # RowMajor

\* construction, then placements (cuda / to(device)) and forward calls
NextPlacementsAndForward ==
    \/ \E d \in CudaDevices : Cuda8(d)
    \/ \E d \in Devices : To8(d, NoArg)
    \/ \E x \in InputDtypes, p \in BOOLEAN : Forward8(x, p)
    \/ \E d \in CudaDevices : Cuda4(d)
    \/ \E d \in Devices : To4(d, NoArg)
    \/ \E x \in InputDtypes : Forward4(x)

SpecPlacementsAndForward == Init /\ [][NextPlacementsAndForward]_vars

\* the weight's buffer still holds the full-precision values
FullPrecisionBuffer == weight.data.dtype \notin {"int8", "uint8"}

\* no statistics anywhere: SCB on neither the parameter nor the layer-state
\* (8-bit), quant_state is None (4-bit)
NoStatistics ==
    IF kind = "int8" THEN weight.SCB = None /\ state.SCB = None
    ELSE weight.quant_state = None

\* the contents of a statistics tensor, <<>> when it is absent
ValuesOf(t) == IF t = None THEN <<>> ELSE <<t.val>>

\* the values of the statistics, wherever they are held
StatValues ==
    IF kind = "int8" THEN <<ValuesOf(weight.SCB), ValuesOf(state.SCB)>>
    ELSE IF weight.quant_state = None THEN <<>>
    ELSE <<ValuesOf(weight.quant_state.absmax),
           IF weight.quant_state.nested = None THEN <<>>
           ELSE <<ValuesOf(weight.quant_state.nested.offset),
                  ValuesOf(weight.quant_state.nested.state2.absmax),
                  ValuesOf(weight.quant_state.nested.state2.code)>>>>

AllIdle == \A t \in Threads : threads.pc[t] = "idle"

\* where a thread is before the n-th assignment of init_8bit_state
InitPc == <<"init1", "init2", "init3", "init4">>

GoTo(t, pc) == threads' = [threads EXCEPT !.pc[t] = pc]

\* line 380: self.state.is_training = self.training
ForwardEnter(t) ==
    /\ kind = "int8"
    /\ threads.pc[t] = "idle"
    /\ threads.serialized => AllIdle
    /\ state' = [state EXCEPT !.is_training = training]
    /\ GoTo(t, "check")
    /\ UNCHANGED <<kind, weight, cls_has_fp16_weights, bias, shares, compute_dtype,
                   last, nQuant>>

\* line 381: if self.weight.CB is not None
ForwardCheck(t) ==
    /\ threads.pc[t] = "check"
    /\ GoTo(t, IF weight.CB # None THEN InitPc[1] ELSE "call")
    /\ UNCHANGED <<kind, weight, cls_has_fp16_weights, state, bias, shares,
                   compute_dtype, last, nQuant>>

\* lines 374-377: the n-th assignment of init_8bit_state
ForwardInit(t, n) ==
    /\ threads.pc[t] = InitPc[n]
    /\ LET r == InitStatement(n, weight, state)
       IN  /\ weight' = r.weight
           /\ state' = r.state
    /\ shares' = CASE n = 1 -> IF "weight.CB" \in shares
                               THEN shares \cup {"state.CB"} ELSE shares \ {"state.CB"}
                   [] n = 3 -> shares \ {"weight.CB"}
                   [] OTHER -> shares
    /\ GoTo(t, IF n < 4 THEN InitPc[n + 1] ELSE "call_handed")
    /\ UNCHANGED <<kind, cls_has_fp16_weights, bias, compute_dtype, last, nQuant>>

\* lines 384-396: bias cast, bnb.matmul, adoption of the transformed buffer
ForwardCall(t, x_dtype, produces) ==
    /\ threads.pc[t] \in {"call", "call_handed"}
    /\ LET r == ForwardFromBiasCast(weight, state, bias, shares, x_dtype, produces)
       IN  /\ weight' = r.weight
           /\ state' = r.state
           /\ bias' = r.bias
           /\ shares' = r.sh
           /\ last' = [Call("forward") EXCEPT !.err = r.err,
                                              !.handed = (threads.pc[t] = "call_handed"),
                                              !.adopted = r.adopted]
    /\ GoTo(t, "idle")
    /\ UNCHANGED <<kind, cls_has_fp16_weights, compute_dtype, nQuant>>

\* callers that do, or do not, serialize their forward calls
InitConcurrentForward == InitLayer /\ \E s \in BOOLEAN : threads = Idle(s)

\* one placement before any forward, then forward calls from the threads
NextConcurrentForward ==
    \/ \E d \in CudaDevices : nQuant = 0 /\ AllIdle /\ Cuda8(d)
    \/ \E t \in Threads : ForwardEnter(t)
    \/ \E t \in Threads : ForwardCheck(t)
    \/ \E t \in Threads, n \in 1..4 : ForwardInit(t, n)
    \/ \E t \in Threads, x \in InputDtypes, p \in BOOLEAN : ForwardCall(t, x, p)

SpecConcurrentForward == InitConcurrentForward /\ [][NextConcurrentForward]_vars

\* the statistics of a quantized 8-bit layer are on neither the parameter nor
\* the layer-state
StatisticsLost ==
    /\ kind = "int8" /\ nQuant = 1 /\ ~state.has_fp16_weights
    /\ weight.SCB = None
    /\ state.SCB = None

\* C16 (under SpecConcurrentForward): the statistics of a quantized layer are
\* lost only when forward calls of different threads overlap; while the callers
\* serialize their forward calls, no state, not even one inside
\* init_8bit_state, has the statistics absent from both places.
C16_ConcurrentForwardUnsafe == StatisticsLost => ~threads.serialized

\* C16 witness: two unserialized forward calls have returned and the statistics
\* are gone from the parameter and from the layer-state
C16_Witness ==
    /\ StatisticsLost
    /\ ~threads.serialized
    /\ AllIdle
    /\ weight.CB = None /\ state.CB = None /\ state.CxB = None
    /\ last.op = "forward" /\ last.handed

\* C17: a placement of a never-quantized 8-bit weight that reaches the
\* accelerator (cuda(), or to(cuda) from the host) invokes the kernel exactly
\* when the weight's own layer was constructed with has_fp16_weights=False,
\* whatever other layers were constructed in between; and the construction of
\* another layer leaves the weight, its CB and SCB included, as it is.
C17_ConfigurationIsolated ==
    [][/\ (/\ kind = "int8"
           /\ nQuant = 0
           /\ \/ last'.op = "cuda"
              \/ last'.op = "to" /\ IsCuda(last'.target) /\ weight.data.dev = "cpu")
          => (last'.kernel = 1 <=> ~state.has_fp16_weights)
       /\ last'.op = "new" => weight' = weight]_vars

\* the elements of a list
Range(q) == {q[i] : i \in DOMAIN q}

\* C18: a load that returns has copied into weight.SCB the entry under the
\* layer's own key prefix + "SCB" and nothing else, has left in the list every
\* unexpected key that other modules had put there, and has removed the
\* layer's own SCB key from the list.
C18_LoadConsumesOwnKeyOnly ==
    [][(last'.op = "load" /\ last'.err = "none")
       => /\ (Range(last'.leftover) \ {Key_SCB}) \subseteq Range(last'.unexpected_keys)
          /\ Key_SCB \notin Range(last'.unexpected_keys)
          /\ weight'.SCB =
                IF Key_SCB \in DOMAIN last'.state_dict /\ weight.SCB # None
                THEN TensorCopy(weight.SCB, last'.state_dict[Key_SCB])
                ELSE weight.SCB]_vars

\* C19: a load that raises RuntimeError because the checkpoint holds the SCB
\* key and weight.SCB is None leaves the weight (buffer, CB, SCB), the bias
\* and the statistics of the layer-state as they were before the call.
C19_RejectedLoadChangesNothing ==
    [][(last'.op = "load" /\ last'.err = "RuntimeError")
       => (weight' = weight /\ bias' = bias /\ state'.SCB = state.SCB)]_vars

====
